---- MODULE Spec2Model ----
(***************************************************************************)
(* Model of the JARVIS automation layer: action_processor.py (JSON         *)
(* descriptor mode), automation_runner.py (two-argument mode) and the      *)
(* three executor operations of automation.py.                             *)
(*                                                                         *)
(* Python strings are sequences of one-character strings, so that          *)
(* str.lower() is computed character by character.  Every Python value is  *)
(* a record [t, s]: t is the type tag, s the payload as a character        *)
(* sequence.                                                               *)
(***************************************************************************)
EXTENDS Integers, Sequences, FiniteSets, TLC

\* ------------------------------------------------------------------ bounds
MaxLen == 2

\* ------------------------------------------------------------- strings
Alphabet == {"a", "A"}

RECURSIVE StringsUpTo(_)
StringsUpTo(n) ==
    IF n = 0 THEN {<< >>}
    ELSE LET prev == StringsUpTo(n - 1)
         IN  prev \cup {Append(s, c) : s \in prev, c \in Alphabet}

UpperLetters ==
    <<"A","B","C","D","E","F","G","H","I","J","K","L","M",
      "N","O","P","Q","R","S","T","U","V","W","X","Y","Z">>

LowerLetters ==
    <<"a","b","c","d","e","f","g","h","i","j","k","l","m",
      "n","o","p","q","r","s","t","u","v","w","x","y","z">>

LowerChar(c) ==
    IF \E i \in 1..Len(UpperLetters) : UpperLetters[i] = c
    THEN LowerLetters[CHOOSE i \in 1..Len(UpperLetters) : UpperLetters[i] = c]
    ELSE c

\* str.lower()
Lower(s) == [i \in 1..Len(s) |-> LowerChar(s[i])]

\* string literals of the source
SEARCH_GOOGLE == <<"s","e","a","r","c","h","_","g","o","o","g","l","e">>
OPEN_WEB_APP == <<"o","p","e","n","_","w","e","b","_","a","p","p">>
OPEN_DESKTOP_APP ==
    <<"o","p","e","n","_","d","e","s","k","t","o","p","_","a","p","p">>
GOOGLE_URL ==
    <<"h","t","t","p","s",":","/","/","w","w","w",".",
      "g","o","o","g","l","e",".","c","o","m">>
ENTER == <<"e","n","t","e","r">>
SPOTIFY == <<"s","p","o","t","i","f","y">>
NOTEPAD == <<"n","o","t","e","p","a","d">>
CALCULATOR == <<"c","a","l","c","u","l","a","t","o","r">>
CALC == <<"c","a","l","c">>
VSCODE == <<"v","s","c","o","d","e">>
VISUAL_STUDIO_CODE ==
    <<"v","i","s","u","a","l"," ","s","t","u","d","i","o"," ","c","o","d","e">>
CODE == <<"c","o","d","e">>
EXPLORER == <<"e","x","p","l","o","r","e","r">>
FILE_EXPLORER ==
    <<"f","i","l","e"," ","e","x","p","l","o","r","e","r">>
\* os.path.expanduser("~\\AppData\\Roaming\\Spotify\\Spotify.exe"): the
\* expanded path is kept as one token, its value depends on the user profile
SPOTIFY_PATH == <<"~\\AppData\\Roaming\\Spotify\\Spotify.exe">>

\* ------------------------------------------------------------- values
Str(s) == [t |-> "str", s |-> s]
Null == [t |-> "null", s |-> << >>]
Num0 == [t |-> "num", s |-> <<"0">>]
Num5 == [t |-> "num", s |-> <<"5">>]
\* a key that the JSON object does not have
Absent == [t |-> "absent", s |-> << >>]

\* time.sleep(2)
SettleDelay == [t |-> "num", s |-> <<"2">>]

\* Python truthiness, as used by "if not x"
TruthyNotNone(v) == v.t # "null"

Truthy(v) ==
    CASE v.t = "str" -> v.s # << >>
      [] v.t = "num" -> v.s # <<"0">>
      [] OTHER -> FALSE

\* dict.get(key): None when the key is missing
Get(v) == IF v = Absent THEN Null ELSE v

\* ------------------------------------------------------------- inputs
NonStrings == {Null, Num0, Num5}
GenStrings == {Str(s) : s \in StringsUpTo(MaxLen)}
AppNames ==
    {Str(NOTEPAD),
     Str(CALCULATOR),
     Str(<<"N","o","t","e","p","a","d">>),
     Str(<<"C","A","L","C","U","L","A","T","O","R">>),
     Str(<<"V","S","C","o","d","e">>),
     Str(<<"V","i","s","u","a","l"," ","S","t","u","d","i","o"," ","C","o","d","e">>),
     Str(<<"E","x","p","l","o","r","e","r">>),
     Str(<<"F","i","l","e"," ","E","x","p","l","o","r","e","r">>),
     Str(<<"S","p","o","t","i","f","y">>),
     Str(<<"F","i","r","e","f","o","x">>)}

DELETE_EVERYTHING ==
    <<"d","e","l","e","t","e","_","e","v","e","r","y","t","h","i","n","g">>
CommandStrings ==
    {SEARCH_GOOGLE, OPEN_WEB_APP, OPEN_DESKTOP_APP, DELETE_EVERYTHING, << >>,
     <<"O","p","e","n","_","W","e","b","_","A","p","p">>}

ActionVals == {Absent, Null, Num5} \cup {Str(c) : c \in CommandStrings}
QueryVals == {Absent} \cup NonStrings \cup GenStrings
UrlVals == {Absent} \cup NonStrings \cup GenStrings
AppVals == {Absent} \cup NonStrings \cup GenStrings \cup AppNames

\* the "params" member of the descriptor: missing, null, a JSON string, or an
\* object with any of the three keys
NoParams ==
    [pk |-> "absent", query |-> Absent, url |-> Absent, app_name |-> Absent]
NullParams ==
    [pk |-> "null", query |-> Absent, url |-> Absent, app_name |-> Absent]
StrParams ==
    [pk |-> "str", query |-> Absent, url |-> Absent, app_name |-> Absent]
ParamsVals ==
    {NoParams, NullParams, StrParams}
    \cup [pk : {"map"}, query : QueryVals, url : UrlVals, app_name : AppVals]

\* argv[1] of action_processor.py: text that is not JSON, JSON that is a
\* list, or a JSON object
BadDoc == [k |-> "bad", action |-> Absent, params |-> NoParams]
ListDoc == [k |-> "list", action |-> Absent, params |-> NoParams]
Docs ==
    {BadDoc, ListDoc} \cup [k : {"obj"}, action : ActionVals, params : ParamsVals]

ArgvA == {<< >>} \cup {<<d>> : d \in Docs}

ParamStrings == GenStrings \cup AppNames
ArgvB ==
    {<< >>}
    \cup {<<Str(c)>> : c \in CommandStrings}
    \cup {<<Str(c), p>> : c \in CommandStrings, p \in ParamStrings}
    \cup {<<Str(c), p, Str(<<"a">>)>> : c \in CommandStrings, p \in {Str(NOTEPAD)}}

\* ------------------------------------------------------------- dispatch
Ops == {"search_google", "open_web_app", "open_desktop_app"}

Exceptions ==
    {"JSONDecodeError", "AttributeError", "TypeError", "OSError",
     "PyAutoGUIException", "WebBrowserError"}

\* the key process_action reads for each action
RequiredKeyShifted(op) ==
    CASE op = "search_google" -> "query"
      [] op = "open_web_app" -> "query"
      [] op = "open_desktop_app" -> "app_name"

RequiredKey(op) ==
    CASE op = "search_google" -> "query"
      [] op = "open_web_app" -> "url"
      [] op = "open_desktop_app" -> "app_name"

ReturnFalse == [kind |-> "return", op |-> "none", arg |-> Null, exc |-> "none"]
Raise(e) == [kind |-> "raise", op |-> "none", arg |-> Null, exc |-> e]
Call(op, v) == [kind |-> "call", op |-> op, arg |-> v, exc |-> "none"]

\* one branch of process_action: params.get(key), the emptiness test, the call
Branch(params, op) ==
    IF params.pk \in {"null", "str"} THEN Raise("AttributeError")
    ELSE LET v == Get(params[RequiredKey(op)])
         IN  IF ~Truthy(v) THEN ReturnFalse ELSE Call(op, v)

\* process_action up to the call of the executor operation
ProcessActionHead(doc) ==
    IF doc.k = "bad" THEN Raise("JSONDecodeError")
    ELSE IF doc.k # "obj" THEN Raise("AttributeError")
    ELSE LET action_type == Get(doc.action)
         IN  IF ~Truthy(action_type) THEN ReturnFalse
             ELSE IF action_type = Str(SEARCH_GOOGLE)
                  THEN Branch(doc.params, "search_google")
             ELSE IF action_type = Str(OPEN_WEB_APP)
                  THEN Branch(doc.params, "open_web_app")
             ELSE IF action_type = Str(OPEN_DESKTOP_APP)
                  THEN Branch(doc.params, "open_desktop_app")
             ELSE ReturnFalse

\* "except json.JSONDecodeError" and "except Exception" of process_action
PACatchesJSONOnly(e) == e = "JSONDecodeError"

PACatches(e) == e = "JSONDecodeError" \/ e \in Exceptions

\* main of action_processor.py: sys.exit(1) unless success
APExitCodeZero(success) == 0

APExitCode(success) == IF success = "true" THEN 0 ELSE 1

\* the if/elif chain of automation_runner.main
RunnerTargetShifted(command_type) ==
    IF command_type = Str(SEARCH_GOOGLE) THEN "search_google"
    ELSE IF command_type = Str(OPEN_WEB_APP) THEN "open_desktop_app"
    ELSE IF command_type = Str(OPEN_DESKTOP_APP) THEN "open_web_app"
    ELSE "none"

RunnerTarget(command_type) ==
    IF command_type = Str(SEARCH_GOOGLE) THEN "search_google"
    ELSE IF command_type = Str(OPEN_WEB_APP) THEN "open_web_app"
    ELSE IF command_type = Str(OPEN_DESKTOP_APP) THEN "open_desktop_app"
    ELSE "none"

\* "except Exception" of automation_runner.main: SystemExit passes through
RunnerCatches(e) == e \in Exceptions

\* ------------------------------------------------------------- executors
\* the statement order of search_google
SGNextTypeFirst(p) ==
    CASE p = "sg_open" -> "sg_write"
      [] p = "sg_write" -> "sg_sleep"
      [] p = "sg_sleep" -> "sg_press"
      [] p = "sg_press" -> "exec_ret"

SGNext(p) ==
    CASE p = "sg_open" -> "sg_sleep"
      [] p = "sg_sleep" -> "sg_write"
      [] p = "sg_write" -> "sg_press"
      [] p = "sg_press" -> "exec_ret"

\* the alias chain of open_desktop_app, applied to the lower-cased name
LaunchCommandLiteral(app_name) ==
    IF app_name = SPOTIFY THEN SPOTIFY_PATH
    ELSE IF app_name = NOTEPAD THEN NOTEPAD
    ELSE IF app_name = CALCULATOR THEN CALCULATOR
    ELSE IF app_name = VSCODE \/ app_name = VISUAL_STUDIO_CODE THEN CODE
    ELSE IF app_name = EXPLORER \/ app_name = FILE_EXPLORER THEN EXPLORER
    ELSE app_name

LaunchCommand(app_name) ==
    IF app_name = SPOTIFY THEN SPOTIFY_PATH
    ELSE IF app_name = NOTEPAD THEN NOTEPAD
    ELSE IF app_name = CALCULATOR THEN CALC
    ELSE IF app_name = VSCODE \/ app_name = VISUAL_STUDIO_CODE THEN CODE
    ELSE IF app_name = EXPLORER \/ app_name = FILE_EXPLORER THEN EXPLORER
    ELSE app_name

\* the value of "success" when open_desktop_app returns after Popen
ODASuccessAliasOnly(app_name) ==
    app_name \in {SPOTIFY, NOTEPAD, CALCULATOR, VSCODE, VISUAL_STUDIO_CODE,
                  EXPLORER, FILE_EXPLORER}

ODASuccess(app_name) == TRUE

\* outcomes of the library calls
OpenOutcomes == {"ok", "false", "raise"}
WriteOutcomes(message) ==
    IF message.t # "str" THEN {"raise"}
    ELSE IF message.s = << >> THEN {"ok", "raise"}
    ELSE {"ok", "partial", "raise"}
PressOutcomes == {"ok", "raise"}
PopenOutcomes == {"ok", "raise"}

\* ------------------------------------------------------------- state
VARIABLES
    mode,       \* "A": action_processor.py, "B": automation_runner.py
    argv,       \* sys.argv[1:]
    pc,         \* position of the single thread
    op,         \* executor operation being run, "none" outside of one
    arg,        \* its argument
    app_name,   \* local app_name of open_desktop_app after lower()
    invoked,    \* executor operations entered, with their arguments
    events,     \* library calls made: webbrowser, time, pyautogui, subprocess
    faults,     \* exceptions raised so far
    exc,        \* exception in flight
    execRet,    \* what the executor operation reported
    result,     \* return value of process_action
    escaped,    \* an exception left process_action
    exitCode    \* exit status of the process, -1 while running

vars ==
    <<mode, argv, pc, op, arg, app_name, invoked, events, faults, exc,
      execRet, result, escaped, exitCode>>

Event(call, a, out) == [call |-> call, arg |-> a, out |-> out]

Entry(o) ==
    CASE o = "search_google" -> "sg_open"
      [] o = "open_web_app" -> "owa_open"
      [] o = "open_desktop_app" -> "oda_lower"

Init ==
    /\ mode \in {"A", "B"}
    /\ argv \in (IF mode = "A" THEN ArgvA ELSE ArgvB)
    /\ pc = "start"
    /\ op = "none"
    /\ arg = Null
    /\ app_name = << >>
    /\ invoked = << >>
    /\ events = << >>
    /\ faults = << >>
    /\ exc = "none"
    /\ execRet = "none"
    /\ result = "none"
    /\ escaped = FALSE
    /\ exitCode = -1

\* ------------------------------------------------- action_processor.py
\* main: usage error without an argument, else process_action(sys.argv[1])
APMain ==
    /\ mode = "A"
    /\ pc = "start"
    /\ IF Len(argv) < 1
       THEN /\ exitCode' = 1
            /\ pc' = "done"
       ELSE /\ pc' = "process_action"
            /\ UNCHANGED exitCode
    /\ UNCHANGED <<mode, argv, op, arg, app_name, invoked, events, faults,
                   exc, execRet, result, escaped>>

\* process_action: json.loads, the two .get calls, the validation, the call
ProcessAction ==
    /\ pc = "process_action"
    /\ LET d == ProcessActionHead(argv[1])
       IN  CASE d.kind = "return" ->
                   /\ result' = "false"
                   /\ pc' = "ap_exit"
                   /\ UNCHANGED <<op, arg, invoked, faults, exc>>
             [] d.kind = "raise" ->
                   /\ exc' = d.exc
                   /\ faults' = Append(faults, d.exc)
                   /\ pc' = "raise"
                   /\ UNCHANGED <<op, arg, invoked, result>>
             [] d.kind = "call" ->
                   /\ op' = d.op
                   /\ arg' = d.arg
                   /\ invoked' = Append(invoked, [op |-> d.op, arg |-> d.arg])
                   /\ pc' = Entry(d.op)
                   /\ UNCHANGED <<faults, exc, result>>
    /\ UNCHANGED <<mode, argv, app_name, events, execRet, escaped, exitCode>>

\* "return automation.<op>(...)"
PAReturn ==
    /\ mode = "A"
    /\ pc = "exec_ret"
    /\ result' = execRet
    /\ op' = "none"
    /\ pc' = "ap_exit"
    /\ UNCHANGED <<mode, argv, arg, app_name, invoked, events, faults, exc,
                   execRet, escaped, exitCode>>

\* the except clauses of process_action
PAExcept ==
    /\ mode = "A"
    /\ pc = "raise"
    /\ IF PACatches(exc)
       THEN /\ result' = "false"
            /\ exc' = "none"
            /\ pc' = "ap_exit"
            /\ UNCHANGED <<escaped, exitCode>>
       ELSE /\ escaped' = TRUE
            /\ exitCode' = 1
            /\ pc' = "done"
            /\ UNCHANGED <<result, exc>>
    /\ op' = "none"
    /\ UNCHANGED <<mode, argv, arg, app_name, invoked, events, faults,
                   execRet>>

\* main after process_action returned
APExit ==
    /\ pc = "ap_exit"
    /\ exitCode' = APExitCode(result)
    /\ pc' = "done"
    /\ UNCHANGED <<mode, argv, op, arg, app_name, invoked, events, faults,
                   exc, execRet, result, escaped>>

\* ------------------------------------------------- automation_runner.py
\* main: usage error with fewer than two arguments, else the if/elif chain
RunnerMain ==
    /\ mode = "B"
    /\ pc = "start"
    /\ IF Len(argv) < 2
       THEN /\ exitCode' = 1
            /\ pc' = "done"
            /\ UNCHANGED <<op, arg, invoked, exc>>
       ELSE LET command_type == argv[1]
                parameter == argv[2]
                target == RunnerTarget(command_type)
            IN  IF target = "none"
                THEN /\ exc' = "SystemExit"
                     /\ pc' = "raise"
                     /\ UNCHANGED <<op, arg, invoked, exitCode>>
                ELSE /\ op' = target
                     /\ arg' = parameter
                     /\ invoked' =
                            Append(invoked, [op |-> target, arg |-> parameter])
                     /\ pc' = Entry(target)
                     /\ UNCHANGED <<exc, exitCode>>
    /\ UNCHANGED <<mode, argv, app_name, events, faults, execRet, result,
                   escaped>>

\* the executor operation returned: its value is dropped, main ends
RunnerReturn ==
    /\ mode = "B"
    /\ pc = "exec_ret"
    /\ exitCode' = 0
    /\ op' = "none"
    /\ pc' = "done"
    /\ UNCHANGED <<mode, argv, arg, app_name, invoked, events, faults, exc,
                   execRet, result, escaped>>

\* "except Exception: sys.exit(1)"; SystemExit(1) is not caught and ends the
\* process with status 1 as well
RunnerExcept ==
    /\ mode = "B"
    /\ pc = "raise"
    /\ exitCode' = 1
    /\ exc' = IF RunnerCatches(exc) THEN "none" ELSE exc
    /\ op' = "none"
    /\ pc' = "done"
    /\ UNCHANGED <<mode, argv, arg, app_name, invoked, events, faults,
                   execRet, result, escaped>>

\* ------------------------------------------------------- automation.py
\* one statement of search_google: the library call, then the next statement
\* or the propagation of what the call raised
SGStep(call, a, out, e) ==
    /\ events' = Append(events, Event(call, a, out))
    /\ IF out \in {"raise", "partial"}
       THEN /\ exc' = e
            /\ faults' = Append(faults, e)
            /\ execRet' = "raised"
            /\ pc' = "raise"
       ELSE /\ pc' = SGNext(pc)
            /\ execRet' = IF SGNext(pc) = "exec_ret" THEN "true" ELSE execRet
            /\ UNCHANGED <<exc, faults>>
    /\ UNCHANGED <<mode, argv, op, arg, app_name, invoked, result, escaped,
                   exitCode>>

SGOpen ==
    /\ pc = "sg_open"
    /\ \E out \in OpenOutcomes :
          SGStep("webbrowser.open", Str(GOOGLE_URL), out, "WebBrowserError")

SGSleep ==
    /\ pc = "sg_sleep"
    /\ SGStep("time.sleep", SettleDelay, "ok", "none")

SGWrite ==
    /\ pc = "sg_write"
    /\ \E out \in WriteOutcomes(arg) :
          SGStep("pyautogui.write", arg, out,
                 IF arg.t # "str" THEN "TypeError" ELSE "PyAutoGUIException")

SGPress ==
    /\ pc = "sg_press"
    /\ \E out \in PressOutcomes :
          SGStep("pyautogui.press", Str(ENTER), out, "PyAutoGUIException")

\* open_web_app: webbrowser.open(url), return True
OWAOpen ==
    /\ pc = "owa_open"
    /\ \E out \in OpenOutcomes :
          /\ events' = Append(events, Event("webbrowser.open", arg, out))
          /\ IF out = "raise"
             THEN /\ exc' = "WebBrowserError"
                  /\ faults' = Append(faults, "WebBrowserError")
                  /\ execRet' = "raised"
                  /\ pc' = "raise"
             ELSE /\ execRet' = "true"
                  /\ pc' = "exec_ret"
                  /\ UNCHANGED <<exc, faults>>
    /\ UNCHANGED <<mode, argv, op, arg, app_name, invoked, result, escaped,
                   exitCode>>

\* open_desktop_app, before the try: app_name = app_name.lower()
ODALower ==
    /\ pc = "oda_lower"
    /\ IF arg.t # "str"
       THEN /\ exc' = "AttributeError"
            /\ faults' = Append(faults, "AttributeError")
            /\ execRet' = "raised"
            /\ pc' = "raise"
            /\ UNCHANGED app_name
       ELSE /\ app_name' = Lower(arg.s)
            /\ pc' = "oda_popen"
            /\ UNCHANGED <<exc, faults, execRet>>
    /\ UNCHANGED <<mode, argv, op, arg, invoked, events, result, escaped,
                   exitCode>>

\* open_desktop_app, the try: the alias chain, subprocess.Popen, the return
ODAPopen ==
    /\ pc = "oda_popen"
    /\ \E out \in PopenOutcomes :
          /\ events' =
                Append(events,
                       Event("subprocess.Popen", Str(LaunchCommand(app_name)), out))
          /\ IF out = "raise"
             THEN /\ faults' = Append(faults, "OSError")
                  /\ execRet' = "false"
             ELSE /\ execRet' = IF ODASuccess(app_name) THEN "true" ELSE "false"
                  /\ UNCHANGED faults
    /\ pc' = "exec_ret"
    /\ UNCHANGED <<mode, argv, op, arg, app_name, invoked, exc, result,
                   escaped, exitCode>>

Next ==
    \/ APMain
    \/ ProcessAction
    \/ PAReturn
    \/ PAExcept
    \/ APExit
    \/ RunnerMain
    \/ RunnerReturn
    \/ RunnerExcept
    \/ SGOpen
    \/ SGSleep
    \/ SGWrite
    \/ SGPress
    \/ OWAOpen
    \/ ODALower
    \/ ODAPopen

Spec == Init /\ [][Next]_vars

\* ------------------------------------------------------------- effects
BrowserOpened ==
    \E i \in 1..Len(events) :
        events[i].call = "webbrowser.open" /\ events[i].out = "ok"
KeystrokeIssued ==
    \E i \in 1..Len(events) :
        /\ events[i].call \in {"pyautogui.write", "pyautogui.press"}
        /\ events[i].out \in {"ok", "partial"}
ProcessCreated ==
    \E i \in 1..Len(events) :
        events[i].call = "subprocess.Popen" /\ events[i].out = "ok"

TypeOK ==
    /\ mode \in {"A", "B"}
    /\ pc \in {"start", "process_action", "ap_exit", "raise", "exec_ret",
               "sg_open", "sg_sleep", "sg_write", "sg_press", "owa_open",
               "oda_lower", "oda_popen", "done"}
    /\ op \in Ops \cup {"none"}
    /\ exitCode \in {-1, 0, 1}
    /\ result \in {"none", "true", "false"}
    /\ execRet \in {"none", "true", "false", "raised"}
    /\ escaped \in BOOLEAN

\* ------------------------------------------------------------- claims
RecognizedCommands == {Str(SEARCH_GOOGLE), Str(OPEN_WEB_APP), Str(OPEN_DESKTOP_APP)}

\* a value that is present and non-empty; the JSON number 0 counts as empty
NonEmpty(v) == v \notin {Absent, Null, Str(<< >>), Num0}

\* the operation a recognized command names
NamedOp(c) ==
    CASE c = Str(SEARCH_GOOGLE) -> "search_google"
      [] c = Str(OPEN_WEB_APP) -> "open_web_app"
      [] c = Str(OPEN_DESKTOP_APP) -> "open_desktop_app"

\* the parameter the data model requires for a recognized action
RequiredParam(doc) ==
    CASE doc.action = Str(SEARCH_GOOGLE) -> doc.params.query
      [] doc.action = Str(OPEN_WEB_APP) -> doc.params.url
      [] doc.action = Str(OPEN_DESKTOP_APP) -> doc.params.app_name

\* the library calls each executor operation may make
CallsOf(o) ==
    CASE o = "search_google" ->
             {"webbrowser.open", "time.sleep", "pyautogui.write", "pyautogui.press"}
      [] o = "open_web_app" -> {"webbrowser.open"}
      [] o = "open_desktop_app" -> {"subprocess.Popen"}

InModeA == mode = "A" /\ Len(argv) >= 1
WellFormedA ==
    /\ InModeA
    /\ argv[1].k = "obj"
    /\ argv[1].action \in RecognizedCommands
    /\ argv[1].params.pk = "map"
    /\ NonEmpty(RequiredParam(argv[1]))

\* C1: a well-formed descriptor (recognized action, required parameter present
\* and non-empty) makes process_action invoke exactly one executor operation,
\* the one matching the action, with that parameter; only that operation's
\* library calls are made.
C1_ExactlyOneExecutor ==
    WellFormedA =>
        LET expected == [op |-> NamedOp(argv[1].action),
                         arg |-> RequiredParam(argv[1])]
        IN  /\ pc \in {"start", "process_action"} => invoked = << >>
            /\ pc \notin {"start", "process_action"} => invoked = <<expected>>
            /\ \A i \in 1..Len(events) : events[i].call \in CallsOf(expected.op)

C1_Witness ==
    /\ WellFormedA
    /\ pc = "done"
    /\ argv[1].action = Str(OPEN_WEB_APP)
    /\ argv[1].params.query = Absent
    /\ invoked = <<[op |-> "open_web_app", arg |-> argv[1].params.url]>>
    /\ Len(events) = 1

InvalidA ==
    /\ InModeA
    /\ \/ argv[1].k = "bad"
       \/ /\ argv[1].k = "obj"
          /\ argv[1].action \notin RecognizedCommands
       \/ /\ argv[1].k = "obj"
          /\ argv[1].action \in RecognizedCommands
          /\ argv[1].params.pk \in {"absent", "map"}
          /\ ~NonEmpty(RequiredParam(argv[1]))

\* C2: text that is not JSON, a descriptor whose action is absent, empty or
\* unrecognized, or whose required parameter is absent or empty, makes
\* process_action return False, and no executor operation is invoked and no
\* library call is made at any point of the call.
C2_InvalidRejected ==
    InvalidA =>
        /\ invoked = << >>
        /\ events = << >>
        /\ result # "true"
        /\ pc \in {"ap_exit", "done"} => result = "false"

C2_Witness ==
    /\ InvalidA
    /\ pc = "done"
    /\ argv[1].action = Str(SEARCH_GOOGLE)
    /\ argv[1].params.pk = "map"
    /\ argv[1].params.query = Str(<< >>)
    /\ argv[1].params.url # Absent
    /\ result = "false"

\* C3: action_processor.main exits with 0 exactly when an executor operation
\* was invoked and reported success; validation failures, executor failures
\* and the invocation without an argument exit with 1.
C3_ExitCodeA ==
    (mode = "A" /\ pc = "done") =>
        /\ exitCode \in {0, 1}
        /\ exitCode = 0 <=> (Len(invoked) = 1 /\ execRet = "true")

C3_Witness ==
    /\ mode = "A"
    /\ pc = "done"
    /\ Len(invoked) = 1
    /\ invoked[1].op = "open_desktop_app"
    /\ execRet = "false"
    /\ exitCode = 1

InModeB == mode = "B" /\ Len(argv) >= 2 /\ argv[1] \in RecognizedCommands

\* C4: in automation_runner.main a failed executor operation ends the process
\* with exit code 1, and exit code 0 is produced only after a success.
C4_RunnerFailureExitsOne ==
    (mode = "B" /\ pc = "done" /\ invoked # << >>) =>
        /\ execRet \in {"false", "raised"} => exitCode = 1
        /\ exitCode = 0 => execRet = "true"

\* C5: automation_runner.main rejects a recognized command_type with an empty
\* parameter: no executor operation is invoked and the exit code is 1.
C5_RunnerValidatesParameter ==
    (InModeB /\ argv[2] = Str(<< >>)) =>
        /\ invoked = << >>
        /\ pc = "done" => exitCode = 1

\* C6: every fault raised while process_action runs, in its own statements or
\* inside the executor operation, ends in process_action returning False; no
\* exception leaves process_action.
C6_NoFaultEscapes ==
    mode = "A" =>
        /\ ~escaped
        /\ (faults # << >> /\ pc \in {"ap_exit", "done"}) =>
               (result = "false" /\ exc = "none")

C6_Witness ==
    /\ mode = "A"
    /\ pc = "done"
    /\ Len(invoked) = 1
    /\ invoked[1].op = "open_desktop_app"
    /\ invoked[1].arg = Num5
    /\ faults = <<"AttributeError">>
    /\ result = "false"
    /\ ~escaped

\* C7: automation_runner.main with fewer than two arguments or an unrecognized
\* command_type exits with 1 and invokes no executor operation; with a
\* recognized command_type and a parameter it invokes exactly one executor
\* operation, the one command_type names, with that parameter.
C7_RunnerDispatch ==
    mode = "B" =>
        IF InModeB
        THEN /\ pc = "start" => invoked = << >>
             /\ pc # "start" =>
                    invoked = <<[op |-> NamedOp(argv[1]), arg |-> argv[2]]>>
             /\ \A i \in 1..Len(events) : events[i].call \in CallsOf(NamedOp(argv[1]))
        ELSE /\ invoked = << >>
             /\ events = << >>
             /\ pc = "done" => exitCode = 1

C7_Witness ==
    /\ InModeB
    /\ pc = "done"
    /\ invoked = <<[op |-> "open_desktop_app", arg |-> Str(CALCULATOR)]>>
    /\ ProcessCreated
    /\ exitCode = 0

\* the alias table of the specification
IsAlias(name) ==
    name \in {NOTEPAD, CALCULATOR, VSCODE, VISUAL_STUDIO_CODE, EXPLORER,
              FILE_EXPLORER, SPOTIFY}
AliasCommand(name) ==
    CASE name = NOTEPAD -> NOTEPAD
      [] name = CALCULATOR -> CALC
      [] name \in {VSCODE, VISUAL_STUDIO_CODE} -> CODE
      [] name \in {EXPLORER, FILE_EXPLORER} -> EXPLORER
      [] name = SPOTIFY -> SPOTIFY_PATH

ODAWithString ==
    /\ invoked # << >>
    /\ invoked[1].op = "open_desktop_app"
    /\ invoked[1].arg.t = "str"

\* what open_desktop_app does with a string, the launched name being fallback
ODAContract(fallback) ==
    /\ pc # "raise"
    /\ exc = "none"
    /\ pc \in {"oda_lower", "oda_popen"} => (events = << >> /\ execRet = "none")
    /\ pc \in {"exec_ret", "ap_exit", "done"} =>
           /\ Len(events) = 1
           /\ events[1].call = "subprocess.Popen"
           /\ events[1].arg =
                  Str(IF IsAlias(Lower(invoked[1].arg.s))
                      THEN AliasCommand(Lower(invoked[1].arg.s))
                      ELSE fallback)
           /\ execRet = "true" <=> events[1].out = "ok"
           /\ execRet = "false" <=> events[1].out = "raise"

\* C8 as stated: one process-creation attempt, the alias command when the
\* lower-cased name is an alias and otherwise a process named by the app_name
\* that was passed in; True iff the attempt does not raise, never an exception.
C8_LaunchesGivenName ==
    ODAWithString => ODAContract(invoked[1].arg.s)

\* C8 amended: as above, but a name that is no alias is launched in its
\* lower-cased form.
C8_LaunchesLoweredName ==
    ODAWithString => ODAContract(Lower(invoked[1].arg.s))

C8_Witness ==
    /\ ODAWithString
    /\ pc = "done"
    /\ invoked[1].arg = Str(<<"F","i","r","e","f","o","x">>)
    /\ events = <<Event("subprocess.Popen", Str(<<"f","i","r","e","f","o","x">>), "ok")>>
    /\ execRet = "true"

SGOrder == <<"webbrowser.open", "time.sleep", "pyautogui.write", "pyautogui.press">>
SGArgs(query) == <<Str(GOOGLE_URL), SettleDelay, query, Str(ENTER)>>

\* C9: search_google issues browser open, settle delay, typing of the query and
\* the submit key in this order, nothing else, and returns True exactly when
\* all four have been issued, whatever opening the browser reported.
C9_SearchOrder ==
    (invoked # << >> /\ invoked[1].op = "search_google") =>
        /\ Len(events) <= Len(SGOrder)
        /\ \A i \in 1..Len(events) :
              /\ events[i].call = SGOrder[i]
              /\ events[i].arg = SGArgs(invoked[1].arg)[i]
        /\ \A i \in 1..(Len(events) - 1) : events[i].out \in {"ok", "false"}
        /\ execRet = "true" <=>
               (Len(events) = Len(SGOrder) /\ events[Len(SGOrder)].out = "ok")
        /\ execRet \in {"true", "raised", "none"}

C9_Witness ==
    /\ invoked # << >>
    /\ invoked[1].op = "search_google"
    /\ pc = "done"
    /\ Len(events) = 4
    /\ events[1].out = "false"
    /\ execRet = "true"

\* C10 as stated: when process_action returned False no browser was opened, no
\* keystroke was issued and no process was created during the call.
C10_FailureHasNoEffect ==
    (mode = "A" /\ result = "false") =>
        (~BrowserOpened /\ ~KeystrokeIssued /\ ~ProcessCreated)

\* C10 amended: when process_action returned False no process was created, and
\* a browser was opened or a keystroke issued only by a search_google call in
\* which a later step raised; a call rejected by validation made no library
\* call at all.
C10_FailureEffectOnlyPartialSearch ==
    (mode = "A" /\ result = "false") =>
        /\ ~ProcessCreated
        /\ invoked = << >> => events = << >>
        /\ (BrowserOpened \/ KeystrokeIssued) =>
               /\ Len(invoked) = 1
               /\ invoked[1].op = "search_google"
               /\ execRet = "raised"
               /\ Len(events) >= 2
               /\ events[Len(events)].out \in {"raise", "partial"}

C10_Witness ==
    /\ mode = "A"
    /\ pc = "done"
    /\ result = "false"
    /\ invoked = <<[op |-> "search_google", arg |-> Num5]>>
    /\ BrowserOpened
    /\ ~KeystrokeIssued
    /\ exitCode = 1

====
